---- MODULE Spec2Model ----
(***************************************************************************)
(* Codebase RAG backend (backend/main.py): ingestion of a source tree into *)
(* the "codebase" vector collection and retrieval-augmented chat over it.   *)
(*                                                                         *)
(* Text is a sequence of one-character strings.  The vector store          *)
(* (chromadb) and the text splitter (langchain) are libraries outside the  *)
(* repository; they are modelled by the behaviour main.py relies on.       *)
(***************************************************************************)
EXTENDS Integers, Sequences, FiniteSets, TLC

NL == "\n"
SP == " "

(***************************************************************************)
(* Python string primitives used by main.py                                *)
(***************************************************************************)
Min(a, b) == IF a <= b THEN a ELSE b
Max(a, b) == IF a >= b THEN a ELSE b

\* text[:position]; a negative position counts from the end, as in Python
Prefix(text, position) ==
    IF position >= 0
    THEN SubSeq(text, 1, Min(position, Len(text)))
    ELSE SubSeq(text, 1, Max(Len(text) + position, 0))

\* text.count(ch)
RECURSIVE count(_, _)
count(text, ch) ==
    IF text = <<>> THEN 0
    ELSE (IF Head(text) = ch THEN 1 ELSE 0) + count(Tail(text), ch)

\* whether sub occurs in text at 0-based offset i
MatchAt(text, sub, i) ==
    /\ i + Len(sub) <= Len(text)
    /\ \A k \in 1..Len(sub) : text[i + k] = sub[k]

\* str.find scanning from offset i: lowest offset >= i where sub occurs, else -1
RECURSIVE findFrom(_, _, _)
findFrom(text, sub, i) ==
    IF i + Len(sub) > Len(text) THEN -1
    ELSE IF MatchAt(text, sub, i) THEN i
    ELSE findFrom(text, sub, i + 1)

\* content.find(chunk)
find(text, sub) == findFrom(text, sub, 0)

IsSpace(c) == c \in {SP, NL}

RECURSIVE lstrip(_)
lstrip(s) ==
    IF s = <<>> THEN s
    ELSE IF IsSpace(Head(s)) THEN lstrip(Tail(s)) ELSE s

RECURSIVE rstrip(_)
rstrip(s) ==
    IF s = <<>> THEN s
    ELSE IF IsSpace(s[Len(s)]) THEN rstrip(SubSeq(s, 1, Len(s) - 1)) ELSE s

\* str.strip()
strip(s) == rstrip(lstrip(s))

(***************************************************************************)
(* get_line_number and the start_line of a chunk                           *)
(***************************************************************************)
\* main.py:82-84
get_line_number(text, position) == count(Prefix(text, position), NL) + 1

start_line_unguarded(content, chunk) ==
    get_line_number(content, find(content, chunk))

\* main.py:129-130
start_line_of(content, chunk) ==
    LET start_pos == find(content, chunk)
    IN  IF start_pos >= 0 THEN get_line_number(content, start_pos) ELSE 1

(***************************************************************************)
(* The text splitter.  RecursiveCharacterTextSplitter returns the pieces   *)
(* of the content in document order, each stripped of surrounding          *)
(* whitespace, none empty.  The model splits at the newline separator of   *)
(* its separator list (one line per chunk).                                *)
(***************************************************************************)
\* the pieces of text between newlines, in order
RECURSIVE Lines(_, _)
Lines(text, cur) ==
    IF text = <<>> THEN <<cur>>
    ELSE IF Head(text) = NL THEN <<cur>> \o Lines(Tail(text), <<>>)
    ELSE Lines(Tail(text), Append(cur, Head(text)))

RECURSIVE StripAll(_)
StripAll(pieces) ==
    IF pieces = <<>> THEN <<>>
    ELSE LET p == strip(Head(pieces))
         IN  (IF p = <<>> THEN <<>> ELSE <<p>>) \o StripAll(Tail(pieces))

\* splitter.split_text(content)
split_text(content) == StripAll(Lines(content, <<>>))

(***************************************************************************)
(* The file system the requests read.  A file is its path relative to its  *)
(* directory, its suffix, whether open/read/decode succeeds, and its text.  *)
(***************************************************************************)
PY  == <<".", "p", "y">>
JS  == <<".", "j", "s">>
TS  == <<".", "t", "s">>
TSX == <<".", "t", "s", "x">>
JSX == <<".", "j", "s", "x">>
MD  == <<".", "m", "d">>

File(rel, sfx, ok, text) ==
    [relpath |-> rel, suffix |-> sfx, readable |-> ok, content |-> text]

\* Existing directories and what they hold; any other path does not exist.
FileSystem ==
    [ A |-> { File("a.py", PY, TRUE, <<"x", NL, "y">>),
              File("bad.py", PY, FALSE, <<"z", NL, "z">>),
              File("c.js", JS, TRUE, <<"y", SP, "x">>),
              File("README.md", MD, TRUE, <<"x">>) },
      B |-> { File("big.ts", TS, TRUE,
                   <<"x", NL, "y", NL, "x", NL, NL, SP, "z", NL, "w", NL, "y", NL>>) },
      E |-> { File("blank.py", PY, TRUE, <<SP, NL>>),
              File("bad.js", JS, FALSE, <<"w">>) },
      docs |-> { File("README.md", MD, TRUE, <<"y">>) } ]

\* directory_path values a request may carry
Paths == DOMAIN FileSystem \cup {"missing"}

\* os.path.exists(directory_path), main.py:88
path_exists(directory_path) == directory_path \in DOMAIN FileSystem

\* the suffixes of the glob patterns, main.py:92
Extensions == {JS, TS, PY, TSX, JSX}

\* main.py:95-100: the deduplicated set of files the patterns match
discover(directory_path) ==
    { f \in FileSystem[directory_path] : f.suffix \in Extensions }

\* the orders list(set(all_files)) may come out in, main.py:100
RECURSIVE Orders(_)
Orders(S) ==
    IF S = {} THEN { <<>> }
    ELSE UNION { { <<f>> \o rest : rest \in Orders(S \ {f}) } : f \in S }

(***************************************************************************)
(* Chunk metadata and the per-file loop of ingest_directory                *)
(***************************************************************************)
PreviewLen == 200

UNKNOWN == <<"u", "n", "k", "n", "o", "w", "n">>

\* file_ext[1:] if file_ext else "unknown", main.py:139
file_type_of(file_ext) == IF file_ext # <<>> THEN Tail(file_ext) ELSE UNKNOWN

\* main.py:135-140
metadata_of(f, chunk) ==
    [ filename     |-> f.relpath,
      start_line   |-> start_line_of(f.content, chunk),
      code_snippet |-> Prefix(chunk, PreviewLen),
      file_type    |-> file_type_of(f.suffix) ]

\* main.py:127-145: the entries of one file, numbered from chunk_counter on
RECURSIVE file_entries(_, _, _)
file_entries(f, chunks, chunk_counter) ==
    IF chunks = <<>> THEN <<>>
    ELSE << [ id       |-> <<f.relpath, chunk_counter>>,
              document |-> Head(chunks),
              metadata |-> metadata_of(f, Head(chunks)) ] >>
         \o file_entries(f, Tail(chunks), chunk_counter + 1)

RECURSIVE collect(_, _)

after_error_break(rest, chunk_counter) == <<>>

\* main.py:147-149: a file that raised is skipped and the loop goes on
after_error(rest, chunk_counter) == collect(rest, chunk_counter)

\* main.py:111-149: the entries accumulated over all_files, in order
collect(all_files, chunk_counter) ==
    IF all_files = <<>> THEN <<>>
    ELSE LET f == Head(all_files)
         IN  IF ~f.readable THEN after_error(Tail(all_files), chunk_counter)
             ELSE IF strip(f.content) = <<>> THEN collect(Tail(all_files), chunk_counter)
             ELSE LET mine == file_entries(f, split_text(f.content), chunk_counter)
                  IN  mine \o collect(Tail(all_files), chunk_counter + Len(mine))

Range(s) == { s[i] : i \in DOMAIN s }

(***************************************************************************)
(* Retrieval: collection.query and the model selector                      *)
(***************************************************************************)
TopK == 5

\* the store's similarity of a chunk to the query text (a keyword): how often
\* the keyword occurs in the chunk
similarity(q, d) == count(d.document, q)

\* collection.query(query_texts=[q], n_results=k): the k most similar entries,
\* best first
RECURSIVE query(_, _, _)
query(entries, q, k) ==
    IF k = 0 \/ entries = {} THEN <<>>
    ELSE LET best == CHOOSE d \in entries :
                         \A e \in entries : similarity(q, d) >= similarity(q, e)
         IN  <<best>> \o query(entries \ {best}, q, k - 1)

DEEPSEEK == <<"d", "e", "e", "p", "s", "e", "e", "k">>
CHATGPT  == <<"c", "h", "a", "t", "g", "p", "t">>
GPT      == <<"g", "p", "t">>
NoneModel == <<"None">>

\* the model selectors a chat request may carry (None: an explicit null)
Models ==
    { <<"D", "e", "e", "p", "S", "e", "e", "k">>, CHATGPT, <<"G", "P", "T">>,
      <<"b", "o", "g", "u", "s">>, NoneModel }

lower_char(c) ==
    CASE c = "D" -> "d" [] c = "S" -> "s" [] c = "G" -> "g"
      [] c = "P" -> "p" [] c = "T" -> "t" [] OTHER -> c

\* str.lower()
lower(s) == [i \in DOMAIN s |-> lower_char(s[i])]

NoProfile       == [model |-> "", api_base |-> ""]
DeepseekProfile == [model |-> "deepseek-chat", api_base |-> "DEEPSEEK_API_BASE"]
OpenAIProfile   == [model |-> "gpt-4o-mini", api_base |-> "default"]

get_llm_model_default(model_name) ==
    IF model_name = NoneModel THEN [raises |-> "AttributeError", llm |-> NoProfile]
    ELSE IF lower(model_name) = CHATGPT \/ lower(model_name) = GPT
         THEN [raises |-> "", llm |-> OpenAIProfile]
    ELSE [raises |-> "", llm |-> DeepseekProfile]

\* main.py:169-185; None has no lower()
get_llm_model(model_name) ==
    IF model_name = NoneModel THEN [raises |-> "AttributeError", llm |-> NoProfile]
    ELSE IF lower(model_name) = DEEPSEEK THEN [raises |-> "", llm |-> DeepseekProfile]
    ELSE IF lower(model_name) = CHATGPT \/ lower(model_name) = GPT
         THEN [raises |-> "", llm |-> OpenAIProfile]
    ELSE [raises |-> "ValueError", llm |-> NoProfile]

context_part_line0(d) ==
    [ filename   |-> d.metadata.filename,
      start_line |-> 0,
      doc        |-> d.document ]

\* main.py:320-330: the citation header fields and the source descriptor of one
\* retrieved entry
context_part(d) ==
    [ filename   |-> d.metadata.filename,
      start_line |-> d.metadata.start_line,
      doc        |-> d.document ]

source_of(d) ==
    [ filename   |-> d.metadata.filename,
      start_line |-> d.metadata.start_line,
      file_type  |-> d.metadata.file_type,
      preview    |-> Prefix(d.document, PreviewLen) ]

(***************************************************************************)
(* The service: the process-wide collection and the HTTP requests in       *)
(* flight.  Each request is handled by a coroutine of the one event loop   *)
(* uvicorn.run starts; pc is the handler's position.                       *)
(***************************************************************************)
MaxTasks == 2
Tasks == 1..MaxTasks

Queries == {"x", "z"}

VARIABLES
    exists,     \* chroma_client holds a collection named "codebase"
    docs,       \* the entries of that collection
    pc,         \* per request: idle, pending, delete, create, recreate, add,
                \* generate, done
    req,        \* per request: its body and the handler's local variables
                \* (n_files: len(all_files); entries: all_ids, all_chunks and
                \* all_metadatas, zipped)
    resp,       \* per request: the HTTP response, once done
    lc          \* an (content, chunk, start_line) instance, for the line-number spec

vars == <<exists, docs, pc, req, resp, lc>>

NoReq ==
    [ kind |-> "none", directory_path |-> "", n_files |-> 0, entries |-> <<>>,
      query |-> "", model |-> <<>>, results |-> <<>>,
      context_parts |-> <<>>, sources |-> <<>>,
      prior |-> {} ]   \* history: the collection's entries when the replace began

NoResp ==
    [ status |-> 0, detail |-> "", files_processed |-> 0, chunks_created |-> 0,
      response |-> "", sources |-> <<>>, invoked |-> FALSE, llm |-> NoProfile ]

NoLc == [content |-> <<>>, chunk |-> <<>>, start_line |-> 0, located |-> FALSE]

\* main.py:40-42: the collection is created empty when the module loads
Init ==
    /\ exists = TRUE
    /\ docs = {}
    /\ pc = [t \in Tasks |-> "idle"]
    /\ req = [t \in Tasks |-> NoReq]
    /\ resp = [t \in Tasks |-> NoResp]
    /\ lc = NoLc

Running == {"delete", "create", "recreate", "add", "generate"}

CanStart_threads(t) == TRUE

\* main.py:188, 300, 380: the handlers are coroutines without an await, so the
\* event loop starts one only when no other is part-way through
CanStart(t) == \A u \in Tasks \ {t} : pc[u] \notin Running

\* the handler returns or raises: its local variables are gone and the
\* response is on its way
Finish(t, r) ==
    /\ pc' = [pc EXCEPT ![t] = "done"]
    /\ req' = [req EXCEPT ![t] = NoReq]
    /\ resp' = [resp EXCEPT ![t] = r]

HttpError(code, text) == [NoResp EXCEPT !.status = code, !.detail = text]

ingest_error_always_500(status, text) ==
    HttpError(500, "Error ingesting codebase")

\* main.py:198-201: an HTTPException passes through, anything else becomes a 500
ingest_error(status, text) ==
    IF status # 0 THEN HttpError(status, text)
    ELSE HttpError(500, "Error ingesting codebase")

\* main.py:193-197
IngestOk(files_processed, chunks_created) ==
    [NoResp EXCEPT !.status = 200, !.detail = "Codebase ingested successfully",
                   !.files_processed = files_processed,
                   !.chunks_created = chunks_created]

\* a request arrives and waits for the event loop
ArriveIngest(t, directory_path) ==
    /\ pc[t] = "idle"
    /\ pc' = [pc EXCEPT ![t] = "pending"]
    /\ req' = [req EXCEPT ![t] = [NoReq EXCEPT !.kind = "ingest",
                                               !.directory_path = directory_path]]
    /\ UNCHANGED <<exists, docs, resp, lc>>

ArriveChat(t, q, m) ==
    /\ pc[t] = "idle"
    /\ pc' = [pc EXCEPT ![t] = "pending"]
    /\ req' = [req EXCEPT ![t] = [NoReq EXCEPT !.kind = "chat", !.query = q,
                                               !.model = m]]
    /\ UNCHANGED <<exists, docs, resp, lc>>

\* main.py:88-149 and 153, 167: discovery, the per-file loop, and the return
\* without touching the store when nothing was accumulated
IngestCollect(t) ==
    /\ pc[t] = "pending" /\ req[t].kind = "ingest"
    /\ CanStart(t)
    /\ LET dir == req[t].directory_path IN
       IF ~path_exists(dir)
       THEN /\ Finish(t, ingest_error(400, "Directory path does not exist"))
            /\ UNCHANGED <<exists, docs, lc>>
       ELSE IF discover(dir) = {}
       THEN /\ Finish(t, ingest_error(400, "No code files found in directory"))
            /\ UNCHANGED <<exists, docs, lc>>
       ELSE \E all_files \in Orders(discover(dir)) :
              /\ IF collect(all_files, 0) # <<>>
                 THEN /\ req' = [req EXCEPT ![t].n_files = Len(all_files),
                                            ![t].entries = collect(all_files, 0),
                                            ![t].prior = docs]
                      /\ pc' = [pc EXCEPT ![t] = "delete"]
                      /\ UNCHANGED resp
                 ELSE Finish(t, IngestOk(Len(all_files), 0))
              /\ UNCHANGED <<exists, docs, lc>>

\* main.py:156: delete_collection; it raises when the collection is absent or
\* the store fails, and control passes to the except branch
StoreDelete(t) ==
    /\ pc[t] = "delete"
    /\ \/ /\ exists
          /\ exists' = FALSE
          /\ docs' = {}
          /\ pc' = [pc EXCEPT ![t] = "create"]
       \/ /\ pc' = [pc EXCEPT ![t] = "recreate"]
          /\ UNCHANGED <<exists, docs>>
    /\ UNCHANGED <<req, resp, lc>>

\* main.py:157: create_collection inside the try; it raises when the name is
\* taken or the store fails
StoreCreate(t) ==
    /\ pc[t] = "create"
    /\ \/ /\ ~exists
          /\ exists' = TRUE
          /\ docs' = {}
          /\ pc' = [pc EXCEPT ![t] = "add"]
       \/ /\ pc' = [pc EXCEPT ![t] = "recreate"]
          /\ UNCHANGED <<exists, docs>>
    /\ UNCHANGED <<req, resp, lc>>

\* main.py:158-159: create_collection in the except branch; its exception
\* leaves ingest_directory
StoreRecreate(t) ==
    /\ pc[t] = "recreate"
    /\ \/ /\ ~exists
          /\ exists' = TRUE
          /\ docs' = {}
          /\ pc' = [pc EXCEPT ![t] = "add"]
          /\ UNCHANGED <<req, resp>>
       \/ /\ Finish(t, ingest_error(0, "create_collection"))
          /\ UNCHANGED <<exists, docs>>
    /\ UNCHANGED lc

\* main.py:161-167: the bulk add (ids already present are kept as they are)
\* and the return; the add raises when the collection is gone or the store
\* fails (embedding, batch limit), and then nothing is added
StoreAdd(t) ==
    /\ pc[t] = "add"
    /\ LET entries == req[t].entries IN
       \/ /\ exists
          /\ docs' = docs \cup { e \in Range(entries) :
                                   \A d \in docs : d.id # e.id }
          /\ Finish(t, IngestOk(req[t].n_files, Len(entries)))
       \/ /\ Finish(t, ingest_error(0, "add"))
          /\ UNCHANGED docs
    /\ UNCHANGED <<exists, lc>>

(***************************************************************************)
(* chat                                                                    *)
(***************************************************************************)
NoResultsText ==
    "No relevant code found in the codebase. Please try a different query or ingest some code first."

no_results_never(results) == FALSE

\* main.py:309
no_results(results) == results = <<>>

\* main.py:319-330, per retrieved (doc, metadata) pair
build_context(results) == [i \in DOMAIN results |-> context_part(results[i])]

build_sources(results) == [i \in DOMAIN results |-> source_of(results[i])]

\* main.py:368-371
chat_error(raises) ==
    IF raises = "ValueError" THEN HttpError(400, "Unknown model")
    ELSE HttpError(500, "Error generating response")

\* main.py:304-349: the query, the empty-result return, the context and sources
ChatQuery(t) ==
    /\ pc[t] = "pending" /\ req[t].kind = "chat"
    /\ CanStart(t)
    /\ IF ~exists
       THEN Finish(t, chat_error("Exception"))
       ELSE LET results == query(docs, req[t].query, TopK) IN
            IF no_results(results)
            THEN Finish(t, [NoResp EXCEPT !.status = 200,
                                          !.response = NoResultsText])
            ELSE /\ req' = [req EXCEPT ![t].results = results,
                                       ![t].context_parts = build_context(results),
                                       ![t].sources = build_sources(results)]
                 /\ pc' = [pc EXCEPT ![t] = "generate"]
                 /\ UNCHANGED resp
    /\ UNCHANGED <<exists, docs, lc>>

\* main.py:352-371: the model selector, the generator call and the response
ChatGenerate(t) ==
    /\ pc[t] = "generate"
    /\ LET m == get_llm_model(req[t].model) IN
       IF m.raises # ""
       THEN Finish(t, chat_error(m.raises))
       ELSE \/ Finish(t, [NoResp EXCEPT !.status = 200, !.response = "generated",
                                        !.sources = req[t].sources,
                                        !.invoked = TRUE, !.llm = m.llm])
            \/ Finish(t, [chat_error("Exception") EXCEPT !.invoked = TRUE,
                                                         !.llm = m.llm])
    /\ UNCHANGED <<exists, docs, lc>>

\* the response has been sent; the slot serves the next request
Reset(t) ==
    /\ pc[t] = "done"
    /\ pc' = [pc EXCEPT ![t] = "idle"]
    /\ resp' = [resp EXCEPT ![t] = NoResp]
    /\ UNCHANGED req
    /\ UNCHANGED <<exists, docs, lc>>

Next ==
    \/ \E t \in Tasks, d \in Paths : ArriveIngest(t, d)
    \/ \E t \in Tasks, q \in Queries, m \in Models : ArriveChat(t, q, m)
    \/ \E t \in Tasks : IngestCollect(t)
    \/ \E t \in Tasks : StoreDelete(t)
    \/ \E t \in Tasks : StoreCreate(t)
    \/ \E t \in Tasks : StoreRecreate(t)
    \/ \E t \in Tasks : StoreAdd(t)
    \/ \E t \in Tasks : ChatQuery(t)
    \/ \E t \in Tasks : ChatGenerate(t)
    \/ \E t \in Tasks : Reset(t)

Spec == Init /\ [][Next]_vars

(***************************************************************************)
(* The start line of a chunk, over every small content and chunk           *)
(***************************************************************************)
MaxLen == 4
MaxChunkLen == 2
Alphabet == {"x", "y", NL}

Texts(n) == UNION { [1..k -> Alphabet] : k \in 0..n }

InitLine ==
    /\ exists = TRUE
    /\ docs = {}
    /\ pc = [t \in Tasks |-> "idle"]
    /\ req = [t \in Tasks |-> NoReq]
    /\ resp = [t \in Tasks |-> NoResp]
    /\ \E content \in Texts(MaxLen), chunk \in Texts(MaxChunkLen) \ {<<>>} :
         lc = [content |-> content, chunk |-> chunk, start_line |-> 0,
               located |-> FALSE]

\* main.py:127-137 for one chunk of one file
Locate ==
    /\ ~lc.located
    /\ lc' = [lc EXCEPT
                !.start_line =
                    metadata_of(File("f.py", PY, TRUE, lc.content), lc.chunk).start_line,
                !.located = TRUE]
    /\ UNCHANGED <<exists, docs, pc, req, resp>>

NextLine == Locate

SpecLine == InitLine /\ [][NextLine]_vars

(***************************************************************************)
(* Properties                                                              *)
(***************************************************************************)
ReplaceSection == {"delete", "create", "recreate", "add"}

\* request t's handler ends in this step
Ends(t) == pc[t] # "done" /\ pc'[t] = "done"

IngestEnds(t) == req[t].kind = "ingest" /\ Ends(t)

IngestReturns(t) == IngestEnds(t) /\ resp'[t].status = 200

\* the first step of t's chat handler: the query
ChatQueries(t) == req[t].kind = "chat" /\ pc[t] = "pending" /\ pc'[t] # "pending"

ChatEnds(t) == req[t].kind = "chat" /\ Ends(t)

\* what the call that is ending accumulated
Produced(t) ==
    IF pc[t] = "add" THEN Range(req[t].entries) ELSE {}

\* C1: when an ingest_directory call returns successfully the collection
\* holds exactly the chunks that call produced, also when it produced none.
C1_ReplaceOnReingest ==
    [][\A t \in Tasks : IngestReturns(t) => exists' /\ docs' = Produced(t)]_vars

\* C2: the files_processed an ingestion returns is the number of discovered
\* files that were read and decoded without error.
C2_FilesProcessedCountsSuccesses ==
    [][\A t \in Tasks :
         IngestReturns(t) =>
            resp'[t].files_processed =
               Cardinality({ f \in discover(req[t].directory_path) : f.readable })
      ]_vars

\* the entry sets a single ingestion can produce
IngestionSets ==
    UNION { { Range(collect(o, 0)) : o \in Orders(discover(d)) } :
            d \in DOMAIN FileSystem }

\* C3: ingestions are serialized against each other and against chat queries:
\* no chat query runs while an ingestion is inside its delete/create/add
\* sequence, no two ingestions are inside it together, and the collection
\* never holds a mix or a part of the chunk sets of ingestions.
C3_Serialized ==
    [][ /\ \A t \in Tasks :
             ChatQueries(t) => \A u \in Tasks \ {t} : pc[u] \notin ReplaceSection
        /\ \A t \in Tasks :
             pc'[t] \in ReplaceSection =>
                \A u \in Tasks \ {t} : pc'[u] \notin ReplaceSection
        /\ docs' = {} \/ docs' \in IngestionSets
      ]_vars

\* an ingestion has dropped a populated collection and not yet added its own
\* chunks, while a chat request and nothing else is waiting to be served
C3_Witness ==
    \E t, u \in Tasks :
       /\ pc[t] = "add" /\ exists /\ docs = {} /\ req[t].prior # {}
       /\ pc[u] = "pending" /\ req[u].kind = "chat"

Recognized ==
    { <<"D", "e", "e", "p", "S", "e", "e", "k">>, DEEPSEEK, CHATGPT,
      <<"G", "P", "T">>, GPT }

UnrecognizedString(m) == m # NoneModel /\ m \notin Recognized

\* C4 as stated: every chat request with an unrecognized model selector
\* ends in a 400 error, whatever the collection holds.
C4_UnknownModelAlways400 ==
    [][\A t \in Tasks :
         ChatEnds(t) /\ UnrecognizedString(req[t].model) => resp'[t].status = 400
      ]_vars

\* C4 amended: a chat request with an unrecognized string selector ends in a
\* 400 "Unknown model" error exactly when its query returned a chunk; with no
\* results it gets the no-results response, and when the query raises, a 500.
\* A deepseek selector and a chatgpt/gpt selector reach different profiles.
C4_UnknownModelAfterRetrieval ==
    [][\A t \in Tasks :
         /\ ChatEnds(t) /\ UnrecognizedString(req[t].model) =>
              /\ pc[t] = "generate" =>
                    /\ resp'[t].status = 400
                    /\ resp'[t].detail = "Unknown model"
                    /\ ~resp'[t].invoked
              /\ pc[t] = "pending" /\ exists =>
                    resp'[t].status = 200 /\ resp'[t].response = NoResultsText
              /\ pc[t] = "pending" /\ ~exists => resp'[t].status = 500
         /\ ChatEnds(t) /\ pc[t] = "generate" /\ req[t].model \in Recognized =>
              /\ resp'[t].invoked
              /\ resp'[t].llm =
                    IF req[t].model \in {CHATGPT, GPT, <<"G", "P", "T">>}
                    THEN OpenAIProfile ELSE DeepseekProfile
              /\ OpenAIProfile # DeepseekProfile
      ]_vars

\* a chat request was refused for its model selector
C4_Witness ==
    \E t \in Tasks :
       /\ pc[t] = "done" /\ resp[t].status = 400
       /\ resp[t].detail = "Unknown model" /\ docs # {}

\* C5: a chat query against an existing, empty collection ends at once with
\* the fixed no-results response, status 200, no sources, no generator call.
C5_EmptyCollectionNoResults ==
    [][\A t \in Tasks :
         ChatQueries(t) /\ exists /\ docs = {} =>
            /\ pc'[t] = "done"
            /\ resp'[t].status = 200
            /\ resp'[t].response = NoResultsText
            /\ resp'[t].sources = <<>>
            /\ ~resp'[t].invoked
      ]_vars

\* a chat request got the no-results response from the empty collection
C5_Witness ==
    \E t \in Tasks :
       /\ pc[t] = "done" /\ resp[t].status = 200
       /\ resp[t].response = NoResultsText /\ exists /\ docs = {}

Readable(dir) == { f \in discover(dir) : f.readable /\ strip(f.content) # <<>> }

\* (file, chunk text) pairs of the readable, non-blank files of dir
Expected(dir) ==
    UNION { { <<f.relpath, c>> : c \in Range(split_text(f.content)) } :
            f \in Readable(dir) }

\* C6: unreadable files never abort an ingestion: when some discovered file
\* is readable and not blank the call goes on to the store, and on success
\* the collection holds the chunks of every such file; when none is, the
\* call returns success with chunks_created = 0.
C6_PartialFailure ==
    [][\A t \in Tasks :
         LET dir == req[t].directory_path IN
         /\ ( /\ req[t].kind = "ingest" /\ pc[t] = "pending" /\ pc'[t] # "pending"
              /\ path_exists(dir) /\ discover(dir) # {} )
            => IF Readable(dir) # {}
               THEN pc'[t] = "delete"
               ELSE /\ pc'[t] = "done" /\ resp'[t].status = 200
                    /\ resp'[t].chunks_created = 0
         /\ IngestReturns(t) /\ pc[t] = "add" =>
              /\ { <<d.metadata.filename, d.document>> : d \in docs' } = Expected(dir)
              /\ resp'[t].chunks_created = Cardinality(docs')
      ]_vars

\* an ingestion of a directory with an unreadable file has stored chunks
C6_Witness ==
    \E t \in Tasks :
       /\ pc[t] = "done" /\ resp[t].status = 200
       /\ resp[t].files_processed = 3 /\ resp[t].chunks_created = 3
       /\ Cardinality(docs) = 3

NoSupportedFile(dir) ==
    \A f \in FileSystem[dir] : f.suffix \notin {PY, JS, TS, TSX, JSX}

\* C7: ingesting a path that does not exist, or one without any supported
\* file, ends in the matching 400 error and leaves the collection as it was.
C7_RejectsLeaveCollection ==
    [][\A t \in Tasks :
         LET dir == req[t].directory_path
             bad == ~path_exists(dir) \/ NoSupportedFile(dir) IN
         (req[t].kind = "ingest" /\ pc[t] = "pending" /\ pc'[t] # "pending" /\ bad)
         => /\ pc'[t] = "done"
            /\ resp'[t].status = 400
            /\ resp'[t].detail = IF ~path_exists(dir)
                                 THEN "Directory path does not exist"
                                 ELSE "No code files found in directory"
            /\ exists' = exists /\ docs' = docs
      ]_vars

\* an ingestion was refused with 400 while the collection held chunks
C7_Witness ==
    \E t \in Tasks :
       /\ pc[t] = "done" /\ resp[t].status = 400
       /\ resp[t].detail = "No code files found in directory"
       /\ exists /\ docs # {}

\* C8: when an ingest_directory call ends, returning or failing, the
\* collection exists and holds either what it held when the call began or
\* the complete new content.
C8_AtomicReplace ==
    [][\A t \in Tasks :
         IngestEnds(t) /\ pc[t] \in ReplaceSection =>
            /\ exists'
            /\ docs' = req[t].prior \/ docs' = Range(req[t].entries)
      ]_vars

\* C9: for a non-empty result set the handler holds one context block and
\* one source descriptor per retrieved chunk, at most 5, in rank order; each
\* retrieved chunk is an entry of the collection, and the descriptor's
\* filename, start_line and file_type and the citation header's filename and
\* start_line are those of the entry's stored metadata; a generated response
\* carries exactly these descriptors.
C9_SourcesMatchMetadata ==
    [][\A t \in Tasks :
         /\ (ChatQueries(t) /\ exists /\ docs # {}) =>
              LET r == req'[t].results
                  c == req'[t].context_parts
                  s == req'[t].sources
                  n == IF Cardinality(docs) < 5 THEN Cardinality(docs) ELSE 5
              IN  /\ pc'[t] = "generate"
                  /\ Len(r) = n /\ Len(c) = n /\ Len(s) = n
                  /\ \A i \in 1..n :
                       /\ r[i] \in docs
                       /\ \A j \in 1..n : i # j => r[i] # r[j]
                       /\ \A j \in 1..n :
                            i < j => similarity(req[t].query, r[i])
                                       >= similarity(req[t].query, r[j])
                       /\ s[i].filename = r[i].metadata.filename
                       /\ s[i].start_line = r[i].metadata.start_line
                       /\ s[i].file_type = r[i].metadata.file_type
                       /\ c[i].filename = r[i].metadata.filename
                       /\ c[i].start_line = r[i].metadata.start_line
                       /\ c[i].doc = r[i].document
         /\ (ChatEnds(t) /\ pc[t] = "generate" /\ resp'[t].status = 200) =>
              resp'[t].sources = req[t].sources
      ]_vars

\* a query against a collection of more than 5 chunks has retrieved 5
C9_Witness ==
    \E t \in Tasks :
       /\ pc[t] = "generate" /\ Cardinality(docs) > 5
       /\ Len(req[t].results) = 5 /\ Len(req[t].sources) = 5
       /\ \E i \in 1..5 : req[t].sources[i].start_line > 1

\* the 0-based offsets at which chunk occurs in content
Occurrences(content, chunk) ==
    { i \in 0..Len(content) :
        /\ i + Len(chunk) <= Len(content)
        /\ SubSeq(content, i + 1, i + Len(chunk)) = chunk }

\* the number of lines of a text
LineCount(content) ==
    Cardinality({ i \in 1..Len(content) : content[i] = NL })
      + (IF content # <<>> /\ content[Len(content)] # NL THEN 1 ELSE 0)

\* C10: the stored start_line of a chunk is 1 plus the number of newlines
\* strictly before the offset of the chunk's first occurrence in the content,
\* and 1 when the chunk does not occur; it is at least 1 and, in a file that
\* is not blank, at most the file's line count.
C10_StartLine ==
    lc.located =>
       LET occ == Occurrences(lc.content, lc.chunk) IN
       /\ occ # {} =>
            LET first == CHOOSE i \in occ : \A j \in occ : i <= j
            IN  lc.start_line =
                   1 + Cardinality({ k \in 1..first : lc.content[k] = NL })
       /\ occ = {} => lc.start_line = 1
       /\ lc.start_line >= 1
       /\ strip(lc.content) # <<>> => lc.start_line <= LineCount(lc.content)

\* a chunk that occurs twice was located at its first occurrence, on line 2
C10_Witness ==
    /\ lc.located
    /\ Cardinality(Occurrences(lc.content, lc.chunk)) = 2
    /\ lc.start_line = 2

====
